---- MODULE Spec2Model ----
(***************************************************************************)
(* Verification model of the video batch scheduler (src/video_cut.py):     *)
(*   - process_videos: the control loop that partitions the video list    *)
(*     over the GPUs, keeps processes_per_gpu workers in flight per GPU    *)
(*     and collects each worker's result artifact;                         *)
(*   - process_single_video / time_limit: one worker process, its         *)
(*     per-duration deadline and the recovery from checkpoints.            *)
(* Spec is the control loop with its worker processes as the environment.  *)
(***************************************************************************)
EXTENDS Integers, Sequences, FiniteSets, TLC

\* ---------------------------------------------------------------- bounds
MaxGpus == 2
MaxVideos == 6
\* the longest video list of the runs checked for termination
MaxFairVideos == 5
\* at most this many workers of a run save a result artifact
MaxArtifacts == 1
\* at most this many workers have exited without the control loop having
\* collected them yet
MaxPending == 2

\* the number of durations of one worker
NumDurations == 2
\* checkpoint directories under sparse/models, and their registered images
MaxCheckpoints == 2
MaxCount == 2

\* indices into durations
Durations == 1..NumDurations

\* the videos of a run whose data is followed to the magnitude table
MaxRunVideos == 2

\* in the runs that follow the GPU binding, a worker exits while it is among
\* the first MaxPosition running workers, in the order of the video list
MaxPosition == 2

\* the global seeds tried: 0..MaxSeed
MaxSeed == 2

\* processes_per_gpu = 4 (src/video_cut.py:253)
processes_per_gpu == 4

VARIABLES
  \* ---- process_videos
  num_gpus,          \* torch.cuda.device_count()
  video_list,        \* sorted(read_video_list(...)): entries are 1..n
  gpu_queues,        \* per GPU: videos waiting to be started
  gpu_processes,     \* per GPU: videos whose worker process is tracked
  all_results,       \* sequence of videos whose artifact was loaded
  remaining_videos,
  completed_videos,
  pbar,              \* tqdm progress count
  pc,                \* position of the control loop
  gpu_id,            \* loop variable of the for loops over GPUs
  i,                 \* index of the inner while loop (1-based)
  \* ---- the worker processes, seen from the control loop
  alive,             \* started workers that have not exited
  resultFile,        \* videos whose <video>_result.npz exists
  \* ---- history
  started,           \* video -> number of mp.Process(...).start()
  launched,          \* gpu_id in args -> videos started with it, in order
  collected          \* video -> number of result-collection attempts

schedVars == <<num_gpus, video_list, gpu_queues, gpu_processes, all_results,
               remaining_videos, completed_videos, pbar, pc, gpu_id, i,
               alive, resultFile, started, launched, collected>>

VARIABLES
  \* ---- process_single_video (one worker process)
  wpc,               \* position of the worker's main thread
  d,                 \* index of the current duration in durations (1-based)
  timer,             \* the threading.Timer of the current time_limit call
  stale,             \* a Timer of a finished time_limit call will still fire
  exc,               \* exception in flight while the with block is left
  canonical,         \* sparse/{images,cameras,points3D}.bin of this duration
  models,            \* what the recovery finds under sparse/models
  largest_path,      \* 0 stands for None
  largest_num_images,
  camera_params,     \* duration index -> the summary recorded for it
  camera_params_out_duration, \* the parameter vectors collected
  saved,             \* what np.savez wrote to <video>_result.npz
  \* ---- history
  outcome,           \* duration index -> outcome of that job
  interrupted        \* some Timer has called _thread.interrupt_main()

workerVars == <<wpc, d, timer, stale, exc, canonical, models, largest_path,
                largest_num_images, camera_params, camera_params_out_duration,
                saved, outcome, interrupted>>

VARIABLES
  \* ---- the data of one run: what the workers save, what process_videos
  \* reads back and combines, and analyze_camera_stats_magnitude
  rpc,               \* position in the run
  run_list,          \* the video basenames of the run: 1..n
  worker_params,     \* video -> camera_params of its worker at line 213
  result_npz,        \* video -> contents of <video>_result.npz, or NoFile
  results,           \* all_results with the loaded dicts: <<video, dict>>
  all_camera_params, \* dict: keys in insertion order, and their values
  magnitude_stats,   \* duration -> bucket -> count
  detailed_stats,    \* duration -> bucket -> list of <<video, value>>
  total_counts,      \* duration -> number of videos considered
  recall_stats       \* duration (if considered) -> bucket -> recall

reportVars == <<rpc, run_list, worker_params, result_npz, results,
                all_camera_params, magnitude_stats, detailed_stats,
                total_counts, recall_stats>>

VARIABLES
  \* ---- the seeds of two worker processes started with the same arguments
  seed,              \* the global seed (--seed)
  name_hash,         \* process -> hash(video_name) in that process
  process_seed,      \* process -> line 128, 0 steps done: not yet derived
  video_seed,        \* process -> duration index -> line 150
  steps              \* process -> number of derivations done

seedVars == <<seed, name_hash, process_seed, video_seed, steps>>

dataVars == <<reportVars, seedVars>>

vars == <<schedVars, workerVars, dataVars>>

\* ------------------------------------------------------------- helpers
Min(a, b) == IF a < b THEN a ELSE b

RECURSIVE SumLen(_, _)
SumLen(qs, g) == IF g = 0 THEN 0 ELSE Len(qs[g]) + SumLen(qs, g - 1)

\* pop(i) on a Python list (i is 1-based here)
Pop(s, k) == SubSeq(s, 1, k - 1) \o SubSeq(s, k + 1, Len(s))

Bump(f, v) == [f EXCEPT ![v] = @ + 1]

\* lines 256-259: gpu_idx = i % num_gpus (i is 0-based in the code)
RECURSIVE RoundRobin(_, _, _, _)
RoundRobin(vl, n, k, groups) ==
  IF k > Len(vl) THEN groups
  ELSE RoundRobin(vl, n, k + 1,
         [groups EXCEPT ![((k - 1) % n) + 1] = Append(@, vl[k])])

gpu_video_groups == RoundRobin(video_list, num_gpus, 1,
                               [g \in 1..num_gpus |-> <<>>])

\* ------------------------------------------------- the worker's data
\* line 158, 186: the files of a reconstruction, in the order of the loops
Files == <<"images.bin", "cameras.bin", "points3D.bin">>
FileSet == {Files[k] : k \in 1..Len(Files)}

\* where a file (and what is parsed from it) comes from: nowhere, the
\* reconstruction of this run, or checkpoint id of sparse/models
Absent == [src |-> "none", id |-> 0]
FromBody == [src |-> "body", id |-> 0]
FromCheckpoint(c) == [src |-> "ckpt", id |-> c]

CheckpointIds == 1..MaxCheckpoints

\* lines 164-169, 194-199: what is recorded of a parsed reconstruction is
\* computed from camera.params alone (numbers).  A checkpoint may hold the
\* cameras of the finished reconstruction: checkpoint 1 does.
Vector(x) == IF x.src = "ckpt" THEN x.id ELSE 1

\* no key for a duration in camera_params
NoEntry == 0

\* os.listdir(model_path), directories only (line 176-177): any order, no
\* name twice
Listings ==
  {l \in UNION {[1..k -> CheckpointIds] : k \in 0..MaxCheckpoints} :
     \A a, b \in 1..Len(l) : l[a] = l[b] => a = b}

\* sparse/models is looked at by the recovery only (lines 172-199): not
\* before it, and not after the handler is left
NotListed == [exists |-> FALSE, listing |-> <<>>, count |-> <<>>, broken |-> {}]

\* what the reconstruction may have left under sparse/models: the directory
\* may be missing; each checkpoint has its number of registered images; at
\* most one checkpoint cannot be parsed (pycolmap.Reconstruction raises)
ModelDirs ==
  {NotListed} \cup
  {[exists |-> TRUE, listing |-> l, count |-> c, broken |-> b] :
     l \in Listings,
     c \in [CheckpointIds -> 0..MaxCount],
     b \in {{}} \cup {{x} : x \in CheckpointIds}}

WellFormed(m) ==
  /\ \A x \in m.broken : \E k \in 1..Len(m.listing) : m.listing[k] = x
  /\ m.exists =>
       \A x \in CheckpointIds :
         (\A k \in 1..Len(m.listing) : m.listing[k] # x) => m.count[x] = 0

\* what a reconstruction that returned without its output files has left
\* under sparse/models, which lines 158-160 and 207-211 never read: nothing,
\* or one checkpoint that can be parsed
LeftBehind ==
  {m \in ModelDirs : WellFormed(m) /\ m.broken = {} /\ Len(m.listing) <= 1}

\* what the reconstruction may have left as canonical output
Outputs == {[f \in FileSet |-> IF f \in present THEN FromBody ELSE Absent] :
              present \in SUBSET FileSet}

\* ---------------------------------------------------------------- Init
\* process_videos before the partition
SchedInit ==
  /\ num_gpus \in 1..MaxGpus
  /\ \E n \in 0..MaxVideos : video_list = [k \in 1..n |-> k]
  /\ gpu_queues = [g \in 1..num_gpus |-> <<>>]
  /\ gpu_processes = [g \in 1..num_gpus |-> <<>>]
  /\ all_results = <<>>
  /\ remaining_videos = 0
  /\ completed_videos = 0
  /\ pbar = 0
  /\ pc = "partition"
  /\ gpu_id = 1
  /\ i = 1
  /\ alive = {}
  /\ resultFile = {}
  /\ started = [v \in 1..Len(video_list) |-> 0]
  /\ launched = [g \in 1..num_gpus |-> <<>>]
  /\ collected = [v \in 1..Len(video_list) |-> 0]

\* lines 139-146: a worker at the head of its loop over the durations
WorkerStart ==
  /\ wpc = "loop"
  /\ d = 1
  /\ timer = "none"
  /\ stale = FALSE
  /\ exc = "none"
  /\ canonical = [f \in FileSet |-> Absent]
  /\ models = NotListed
  /\ largest_path = 0
  /\ largest_num_images = 0
  /\ camera_params = [k \in 1..NumDurations |-> NoEntry]
  /\ camera_params_out_duration = <<>>
  /\ saved = [written |-> FALSE, params |-> <<>>]
  /\ outcome = [k \in 1..NumDurations |-> "none"]
  /\ interrupted = FALSE

\* no run data and no seeds: the parts of the model not taking part
ReportIdle ==
  /\ rpc = "idle"
  /\ run_list = <<>>
  /\ worker_params = <<>>
  /\ result_npz = <<>>
  /\ results = <<>>
  /\ all_camera_params = [keys |-> <<>>, val |-> <<>>]
  /\ magnitude_stats = <<>>
  /\ detailed_stats = <<>>
  /\ total_counts = <<>>
  /\ recall_stats = <<>>

SeedIdle ==
  /\ seed = 0
  /\ name_hash = <<>>
  /\ process_seed = <<>>
  /\ video_seed = <<>>
  /\ steps = <<>>

Init == SchedInit /\ WorkerStart /\ ReportIdle /\ SeedIdle

\* ------------------------------------------------------- process_videos
\* lines 255-270: group the videos by GPU and copy the groups to the queues
Partition ==
  /\ pc = "partition"
  /\ gpu_queues' = gpu_video_groups
  /\ gpu_processes' = [g \in 1..num_gpus |-> <<>>]
  /\ gpu_id' = 1
  /\ pc' = "fill"
  /\ UNCHANGED <<workerVars, dataVars>>
  /\ UNCHANGED <<num_gpus, video_list, all_results, remaining_videos,
                 completed_videos, pbar, i, alive, resultFile, started, launched,
                 collected>>

\* mutant: the initial fill starts one worker more than processes_per_gpu
FillCountOneMore(q) == Min(processes_per_gpu + 1, Len(q))

\* lines 274-280: the number of workers started on one GPU by the initial fill
FillCount(q) == Min(processes_per_gpu, Len(q))

\* lines 273-280: the initial fill of one GPU
InitialFill ==
  /\ pc = "fill"
  /\ LET q == gpu_queues[gpu_id]
         k == Min(FillCount(q), Len(q))   \* "if gpu_queues[gpu_id]" guards the pop
         new == SubSeq(q, 1, k)
     IN /\ gpu_queues' = [gpu_queues EXCEPT ![gpu_id] = SubSeq(q, k + 1, Len(q))]
        /\ gpu_processes' = [gpu_processes EXCEPT ![gpu_id] = @ \o new]
        /\ alive' = alive \cup {new[j] : j \in 1..k}
        /\ started' = [v \in DOMAIN started |->
                         started[v] + Cardinality({j \in 1..k : new[j] = v})]
        /\ launched' = [launched EXCEPT ![gpu_id] = @ \o new]
  /\ IF gpu_id = num_gpus
       THEN /\ pc' = "count"
            /\ gpu_id' = gpu_id
       ELSE /\ pc' = "fill"
            /\ gpu_id' = gpu_id + 1
  /\ UNCHANGED <<workerVars, dataVars>>
  /\ UNCHANGED <<num_gpus, video_list, all_results, remaining_videos,
                 completed_videos, pbar, i, resultFile, collected>>

\* lines 283-284
CountRemaining ==
  /\ pc = "count"
  /\ remaining_videos' = SumLen(gpu_queues, num_gpus)
  /\ completed_videos' = 0
  /\ pc' = "while"
  /\ UNCHANGED <<workerVars, dataVars>>
  /\ UNCHANGED <<num_gpus, video_list, gpu_queues, gpu_processes, all_results,
                 pbar, gpu_id, i, alive, resultFile, started, launched, collected>>

\* mutant: the loop condition forgets the tracked processes
LoopConditionQueuesOnly == remaining_videos > 0

\* line 286: the loop condition
LoopCondition ==
  remaining_videos > 0 \/ \E g \in 1..num_gpus : gpu_processes[g] # <<>>

\* line 286-289: test the condition; enter a polling pass or leave the loop
LoopTest ==
  /\ pc = "while"
  /\ IF LoopCondition
       THEN /\ pc' = "scan"
            /\ gpu_id' = 1
            /\ i' = 1
       ELSE /\ pc' = "join"
            /\ UNCHANGED <<gpu_id, i>>
  /\ UNCHANGED <<workerVars, dataVars>>
  /\ UNCHANGED <<num_gpus, video_list, gpu_queues, gpu_processes, all_results,
                 remaining_videos, completed_videos, pbar, alive, resultFile,
                 started, launched, collected>>

\* line 290 false: the inner while of this GPU is over; next GPU or sleep
NextGpu ==
  /\ pc = "scan"
  /\ i > Len(gpu_processes[gpu_id])
  /\ IF gpu_id = num_gpus
       THEN /\ pc' = "sleep"
            /\ UNCHANGED <<gpu_id, i>>
       ELSE /\ gpu_id' = gpu_id + 1
            /\ i' = 1
            /\ pc' = "scan"
  /\ UNCHANGED <<workerVars, dataVars>>
  /\ UNCHANGED <<num_gpus, video_list, gpu_queues, gpu_processes, all_results,
                 remaining_videos, completed_videos, pbar, alive, resultFile,
                 started, launched, collected>>

\* lines 291-292, 316-317: the process is still alive
StillAlive ==
  /\ pc = "scan"
  /\ i <= Len(gpu_processes[gpu_id])
  /\ gpu_processes[gpu_id][i] \in alive
  /\ i' = i + 1
  /\ UNCHANGED <<workerVars, dataVars>>
  /\ UNCHANGED <<num_gpus, video_list, gpu_queues, gpu_processes, all_results,
                 remaining_videos, completed_videos, pbar, pc, gpu_id, alive,
                 resultFile, started, launched, collected>>

\* mutant: the exited process is removed before its result is collected
ObserveExitSkipCollect ==
  /\ pc = "scan"
  /\ i <= Len(gpu_processes[gpu_id])
  /\ gpu_processes[gpu_id][i] \notin alive
  /\ completed_videos' = completed_videos + 1
  /\ pbar' = pbar + 1
  /\ pc' = "remove"
  /\ UNCHANGED <<workerVars, dataVars>>
  /\ UNCHANGED <<num_gpus, video_list, gpu_queues, gpu_processes, all_results,
                 remaining_videos, gpu_id, i, alive, resultFile, started, launched,
                 collected>>

\* lines 291-296: the process has exited: join it and count it
ObserveExit ==
  /\ pc = "scan"
  /\ i <= Len(gpu_processes[gpu_id])
  /\ gpu_processes[gpu_id][i] \notin alive
  /\ completed_videos' = completed_videos + 1
  /\ pbar' = pbar + 1
  /\ pc' = "collect"
  /\ UNCHANGED <<workerVars, dataVars>>
  /\ UNCHANGED <<num_gpus, video_list, gpu_queues, gpu_processes, all_results,
                 remaining_videos, gpu_id, i, alive, resultFile, started, launched,
                 collected>>

\* lines 298-303: read the artifact of the exited worker, if there is one
CollectResult ==
  /\ pc = "collect"
  /\ LET video_name == gpu_processes[gpu_id][i]
     IN /\ collected' = Bump(collected, video_name)
        /\ all_results' = IF video_name \in resultFile
                            THEN Append(all_results, video_name)
                            ELSE all_results
  /\ pc' = "remove"
  /\ UNCHANGED <<workerVars, dataVars>>
  /\ UNCHANGED <<num_gpus, video_list, gpu_queues, gpu_processes,
                 remaining_videos, completed_videos, pbar, gpu_id, i, alive,
                 resultFile, started, launched>>

\* line 306: gpu_processes[gpu_id].pop(i)
RemoveProcess ==
  /\ pc = "remove"
  /\ gpu_processes' = [gpu_processes EXCEPT ![gpu_id] = Pop(@, i)]
  /\ pc' = "refill"
  /\ UNCHANGED <<workerVars, dataVars>>
  /\ UNCHANGED <<num_gpus, video_list, gpu_queues, all_results,
                 remaining_videos, completed_videos, pbar, gpu_id, i, alive,
                 resultFile, started, launched, collected>>

\* mutant: the next video is started but left in the queue
RefillNoPop ==
  /\ pc = "refill"
  /\ IF gpu_queues[gpu_id] # <<>>
       THEN LET next_video == Head(gpu_queues[gpu_id])
            IN /\ remaining_videos' = remaining_videos - 1
               /\ alive' = alive \cup {next_video}
               /\ started' = Bump(started, next_video)
               /\ launched' = [launched EXCEPT ![gpu_id] = Append(@, next_video)]
               /\ gpu_processes' =
                    [gpu_processes EXCEPT ![gpu_id] = Append(@, next_video)]
       ELSE UNCHANGED <<remaining_videos, alive, started, launched, gpu_processes>>
  /\ pc' = "scan"
  /\ UNCHANGED <<workerVars, dataVars>>
  /\ UNCHANGED <<num_gpus, video_list, gpu_queues, all_results,
                 completed_videos, pbar, gpu_id, i, resultFile, collected>>

\* mutant: the freed capacity is refilled only when the GPU has drained
RefillWhenDrained ==
  /\ pc = "refill"
  /\ IF gpu_queues[gpu_id] # <<>> /\ gpu_processes[gpu_id] = <<>>
       THEN LET next_video == Head(gpu_queues[gpu_id])
            IN /\ gpu_queues' = [gpu_queues EXCEPT ![gpu_id] = Tail(@)]
               /\ remaining_videos' = remaining_videos - 1
               /\ alive' = alive \cup {next_video}
               /\ started' = Bump(started, next_video)
               /\ launched' = [launched EXCEPT ![gpu_id] = Append(@, next_video)]
               /\ gpu_processes' =
                    [gpu_processes EXCEPT ![gpu_id] = Append(@, next_video)]
       ELSE UNCHANGED <<gpu_queues, remaining_videos, alive, started, launched,
                        gpu_processes>>
  /\ pc' = "scan"
  /\ UNCHANGED <<workerVars, dataVars>>
  /\ UNCHANGED <<num_gpus, video_list, all_results, completed_videos, pbar,
                 gpu_id, i, resultFile, collected>>

\* mutant: the replacement is started with the gpu_id of the next GPU
RefillOnNextGpu ==
  /\ pc = "refill"
  /\ IF gpu_queues[gpu_id] # <<>>
       THEN LET next_video == Head(gpu_queues[gpu_id])
            IN /\ gpu_queues' = [gpu_queues EXCEPT ![gpu_id] = Tail(@)]
               /\ remaining_videos' = remaining_videos - 1
               /\ alive' = alive \cup {next_video}
               /\ started' = Bump(started, next_video)
               /\ launched' = [launched EXCEPT ![(gpu_id % num_gpus) + 1] =
                                 Append(@, next_video)]
               /\ gpu_processes' =
                    [gpu_processes EXCEPT ![gpu_id] = Append(@, next_video)]
       ELSE UNCHANGED <<gpu_queues, remaining_videos, alive, started, launched,
                        gpu_processes>>
  /\ pc' = "scan"
  /\ UNCHANGED <<workerVars, dataVars>>
  /\ UNCHANGED <<num_gpus, video_list, all_results, completed_videos, pbar,
                 gpu_id, i, resultFile, collected>>

\* lines 308-315: start the next queued video of this GPU, if any
Refill ==
  /\ pc = "refill"
  /\ IF gpu_queues[gpu_id] # <<>>
       THEN LET next_video == Head(gpu_queues[gpu_id])
            IN /\ gpu_queues' = [gpu_queues EXCEPT ![gpu_id] = Tail(@)]
               /\ remaining_videos' = remaining_videos - 1
               /\ alive' = alive \cup {next_video}
               /\ started' = Bump(started, next_video)
               /\ launched' = [launched EXCEPT ![gpu_id] = Append(@, next_video)]
               /\ gpu_processes' =
                    [gpu_processes EXCEPT ![gpu_id] = Append(@, next_video)]
       ELSE UNCHANGED <<gpu_queues, remaining_videos, alive, started, launched,
                        gpu_processes>>
  /\ pc' = "scan"
  /\ UNCHANGED <<workerVars, dataVars>>
  /\ UNCHANGED <<num_gpus, video_list, all_results, completed_videos, pbar,
                 gpu_id, i, resultFile, collected>>

\* line 320: time.sleep(0.5), then back to the loop condition
Sleep ==
  /\ pc = "sleep"
  /\ pc' = "while"
  /\ UNCHANGED <<workerVars, dataVars>>
  /\ UNCHANGED <<num_gpus, video_list, gpu_queues, gpu_processes, all_results,
                 remaining_videos, completed_videos, pbar, gpu_id, i, alive,
                 resultFile, started, launched, collected>>

\* the processes still tracked, GPU by GPU (the iteration order of 323-324)
RECURSIVE Tracked(_, _)
Tracked(procs, g) ==
  IF g = 0 THEN <<>> ELSE Tracked(procs, g - 1) \o procs[g]

\* lines 322-333: join every process still tracked and collect its result
\* (process.join() blocks until the process has exited)
TrailingJoin ==
  /\ pc = "join"
  /\ LET rest == Tracked(gpu_processes, num_gpus)
     IN /\ \A j \in 1..Len(rest) : rest[j] \notin alive
        /\ pbar' = pbar + Len(rest)
        /\ collected' = [v \in DOMAIN collected |->
               collected[v] + Cardinality({j \in 1..Len(rest) : rest[j] = v})]
        /\ all_results' = all_results \o
               SelectSeq(rest, LAMBDA v : v \in resultFile)
  /\ pc' = "done"
  /\ UNCHANGED <<workerVars, dataVars>>
  /\ UNCHANGED <<num_gpus, video_list, gpu_queues, gpu_processes,
                 remaining_videos, completed_videos, gpu_id, i, alive,
                 resultFile, started, launched>>

\* ------------------------------------------------ the worker, from outside
\* lines 213-227 and process exit: the worker either returns without a result
\* (line 215) or saves <video>_result.npz (line 225), and then exits
WorkerExit(v) ==
  /\ v \in alive
  /\ Cardinality({w \in DOMAIN started :
                    started[w] > collected[w] /\ w \notin alive}) < MaxPending
  /\ \E wrote \in BOOLEAN :
       /\ wrote => Cardinality(resultFile) < MaxArtifacts
       /\ resultFile' = IF wrote THEN resultFile \cup {v} ELSE resultFile
  /\ alive' = alive \ {v}
  /\ UNCHANGED <<workerVars, dataVars>>
  /\ UNCHANGED <<num_gpus, video_list, gpu_queues, gpu_processes, all_results,
                 remaining_videos, completed_videos, pbar, pc, gpu_id, i,
                 started, launched, collected>>

Next ==
  \/ Partition
  \/ InitialFill
  \/ CountRemaining
  \/ LoopTest
  \/ NextGpu
  \/ StillAlive
  \/ ObserveExit
  \/ CollectResult
  \/ RemoveProcess
  \/ Refill
  \/ Sleep
  \/ TrailingJoin
  \/ \E v \in alive : WorkerExit(v)

Spec == Init /\ [][Next]_vars

\* --------------------------------------------- process_single_video
\* A worker's main thread runs the loop over the durations; each time_limit
\* call starts a threading.Timer thread.  Timer.cancel() "will only work if
\* the timer is still in its waiting stage": a Timer thread whose wait has
\* timed out ("running") calls _thread.interrupt_main() whether or not
\* cancel() is called afterwards.  interrupt_main() raises KeyboardInterrupt
\* in the main thread, wherever that is.
\* Timing: a Timer thread that has left its waiting stage calls
\* interrupt_main() before the deadline of a later time_limit call elapses.

workerFrame == <<d, models, largest_path, largest_num_images, camera_params,
                 camera_params_out_duration, saved, outcome>>

\* lines 146-154, 103-105: next duration; time_limit creates and starts a Timer
EnterGuard ==
  /\ wpc = "loop"
  /\ d <= NumDurations
  /\ stale' = (stale \/ timer = "running")
  /\ timer' = "waiting"
  /\ exc' = "none"
  /\ canonical' = [f \in FileSet |-> Absent]
  /\ models' = NotListed
  /\ wpc' = "body"
  /\ UNCHANGED <<d, largest_path, largest_num_images, camera_params,
                 camera_params_out_duration, saved, outcome, interrupted>>
  /\ UNCHANGED <<schedVars, dataVars>>

\* line 146: the loop over the durations is exhausted
LeaveLoop ==
  /\ wpc = "loop"
  /\ d > NumDurations
  /\ wpc' = "save"
  /\ UNCHANGED <<timer, stale, exc, canonical, interrupted>>
  /\ UNCHANGED workerFrame
  /\ UNCHANGED <<schedVars, dataVars>>

\* lines 155-156 return: the reconstruction has written some or all of its
\* output files; the with block is being left
BodyReturn ==
  /\ wpc = "body"
  /\ canonical' \in Outputs
  /\ exc' = "none"
  /\ wpc' = "exit"
  /\ UNCHANGED <<timer, stale, interrupted>>
  /\ UNCHANGED workerFrame
  /\ UNCHANGED <<schedVars, dataVars>>

\* lines 155-156 raise an ordinary exception
BodyRaise ==
  /\ wpc = "body"
  /\ canonical' \in Outputs
  /\ exc' = "Exception"
  /\ wpc' = "exit"
  /\ UNCHANGED <<timer, stale, interrupted>>
  /\ UNCHANGED workerFrame
  /\ UNCHANGED <<schedVars, dataVars>>

\* line 104-105: the deadline elapses while the call is still in the with
\* block; the Timer thread leaves its waiting stage
Expire ==
  /\ timer = "waiting"
  /\ ~stale
  /\ wpc = "body" \/ (wpc = "exit" /\ exc # "Timeout")
  /\ timer' = "running"
  /\ UNCHANGED <<wpc, stale, exc, canonical, interrupted>>
  /\ UNCHANGED workerFrame
  /\ UNCHANGED <<schedVars, dataVars>>

\* where the worker's main thread can be interrupted outside the with block
Unguarded == {"loop", "check", "parse", "except", "recover", "promote",
              "reparse", "recover_failed", "save"}

\* KeyboardInterrupt raised in the main thread
KeyboardInterruptRaised ==
  \/ /\ wpc = "body"            \* at the yield: lines 108-109 raise TimeoutException
     /\ exc' = "Timeout"
     /\ wpc' = "exit"
     /\ canonical' \in Outputs
  \/ /\ wpc = "exit"            \* body done, generator resumed inside the try
     /\ exc = "none"
     /\ exc' = "Timeout"
     /\ wpc' = "exit"
     /\ canonical' = canonical
  \/ /\ wpc = "exit"            \* in __exit__ or in the finally clause, line 110-111
     /\ wpc' = "crashed"
     /\ UNCHANGED <<exc, canonical>>
  \/ /\ wpc \in Unguarded       \* no handler catches KeyboardInterrupt
     /\ wpc' = "crashed"
     /\ UNCHANGED <<exc, canonical>>

\* line 104: the Timer thread of this time_limit call calls interrupt_main()
Fire ==
  /\ timer = "running"
  /\ timer' = "fired"
  /\ interrupted' = TRUE
  /\ KeyboardInterruptRaised
  /\ UNCHANGED stale
  /\ UNCHANGED workerFrame
  /\ UNCHANGED <<schedVars, dataVars>>

\* line 104: the Timer thread of an earlier time_limit call calls
\* interrupt_main()
FireStale ==
  /\ stale
  /\ stale' = FALSE
  /\ interrupted' = TRUE
  /\ KeyboardInterruptRaised
  /\ UNCHANGED timer
  /\ UNCHANGED workerFrame
  /\ UNCHANGED <<schedVars, dataVars>>

\* line 111: what timer.cancel() makes of the Timer
Cancelled(t) == IF t = "waiting" THEN "cancelled" ELSE t

\* lines 110-111, then 158, 171 or 207: timer.cancel(), and control returns
\* to process_single_video normally or with the exception in flight
CancelTimer ==
  /\ wpc = "exit"
  /\ timer' = Cancelled(timer)
  /\ wpc' = CASE exc = "none" -> "check"
              [] exc = "Exception" -> "except"
              [] exc = "Timeout" -> "recover"
  /\ exc' = "none"
  /\ UNCHANGED <<stale, canonical, interrupted>>
  /\ UNCHANGED workerFrame
  /\ UNCHANGED <<schedVars, dataVars>>

\* lines 158-160: a missing output file raises RuntimeError
CheckFiles ==
  /\ wpc = "check"
  /\ IF \A k \in 1..Len(Files) : canonical[Files[k]] # Absent
       THEN /\ wpc' = "parse"
            /\ UNCHANGED <<exc, models>>
       ELSE /\ wpc' = "except"
            /\ exc' = "RuntimeError"                    \* line 160
            /\ models' \in LeftBehind
  /\ UNCHANGED <<timer, stale, canonical, interrupted>>
  /\ UNCHANGED <<d, largest_path, largest_num_images, camera_params,
                 camera_params_out_duration, saved, outcome>>
  /\ UNCHANGED <<schedVars, dataVars>>

\* lines 162-169: parse the reconstruction and record the summary of this
\* duration; pycolmap or numpy may raise
ParseResult ==
  /\ wpc = "parse"
  /\ \E parsed \in BOOLEAN :
       IF parsed
         THEN /\ camera_params' =
                   [camera_params EXCEPT ![d] = Vector(canonical["cameras.bin"])]
              /\ camera_params_out_duration' =
                   Append(camera_params_out_duration,
                          Vector(canonical["cameras.bin"]))
              /\ outcome' = [outcome EXCEPT ![d] = "Success"]
              /\ d' = d + 1
              /\ wpc' = "loop"
         ELSE /\ wpc' = "except"
              /\ UNCHANGED <<camera_params, camera_params_out_duration,
                             outcome, d>>
  /\ UNCHANGED <<timer, stale, exc, canonical, models, largest_path,
                 largest_num_images, saved, interrupted>>
  /\ UNCHANGED <<schedVars, dataVars>>

\* lines 207-211: log the error and continue with the next duration
HandleException ==
  /\ wpc = "except"
  /\ outcome' = [outcome EXCEPT ![d] = "Failed"]
  /\ d' = d + 1
  /\ models' = NotListed
  /\ exc' = "none"
  /\ wpc' = "loop"
  /\ UNCHANGED <<timer, stale, canonical, largest_path,
                 largest_num_images, camera_params,
                 camera_params_out_duration, saved, interrupted>>
  /\ UNCHANGED <<schedVars, dataVars>>

\* mutant: every checkpoint with registered images replaces the choice
IsLargerThanZero(num_images, largest) == num_images > 0

\* line 180
IsLarger(num_images, largest) == num_images > largest

\* lines 176-182: the loop over the first n entries of the listing
RECURSIVE LargestOf(_, _, _)
LargestOf(listing, count, n) ==
  IF n = 0 THEN [path |-> 0, num_images |-> 0]     \* lines 174-175
  ELSE LET sofar == LargestOf(listing, count, n - 1)
           path == listing[n]
       IN IF IsLarger(count[path], sofar.num_images)
            THEN [path |-> path, num_images |-> count[path]]
            ELSE sofar

\* the entries listed before the first checkpoint that cannot be parsed
RECURSIVE ParsedPrefix(_, _, _)
ParsedPrefix(listing, broken, k) ==
  IF k > Len(listing) \/ listing[k] \in broken THEN k - 1
  ELSE ParsedPrefix(listing, broken, k + 1)

\* lines 172-184: list sparse/models, parse every checkpoint, keep the
\* largest, assert that there is one
SelectCheckpoint ==
  /\ wpc = "recover"
  /\ \E m \in ModelDirs :
       /\ WellFormed(m)
       /\ models' = m
       /\ LET n == ParsedPrefix(m.listing, m.broken, 1)
              largest == IF m.exists THEN LargestOf(m.listing, m.count, n)
                         ELSE [path |-> 0, num_images |-> 0]
          IN /\ largest_path' = largest.path
             /\ largest_num_images' = largest.num_images
             /\ wpc' = IF m.exists /\ n = Len(m.listing) /\ largest.path # 0
                         THEN "promote" ELSE "recover_failed"
             /\ exc' = CASE ~m.exists -> "FileNotFoundError"     \* line 176
                         [] n < Len(m.listing) -> "ParseError"    \* line 178
                         [] largest.path = 0 -> "AssertionError"  \* line 183
                         [] OTHER -> "none"
  /\ UNCHANGED <<d, timer, stale, canonical, camera_params,
                 camera_params_out_duration, saved, outcome, interrupted>>
  /\ UNCHANGED <<schedVars, dataVars>>

\* lines 186-190: the first n files: unlink the canonical file if it exists,
\* move the checkpoint's file in its place
RECURSIVE Promoted(_, _, _)
Promoted(files, path, n) ==
  IF n = 0 THEN files
  ELSE [Promoted(files, path, n - 1) EXCEPT ![Files[n]] = FromCheckpoint(path)]

\* lines 186-190: every file is promoted, or shutil.move raises at file
\* n + 1 (the checkpoint lacks the file, or the move fails) after the
\* canonical file has been unlinked
PromoteCheckpoint ==
  /\ wpc = "promote"
  /\ \E n \in 0..Len(Files) :
       IF n = Len(Files)
         THEN /\ canonical' = Promoted(canonical, largest_path, n)
              /\ wpc' = "reparse"
              /\ exc' = "none"
         ELSE /\ canonical' = [Promoted(canonical, largest_path, n)
                                 EXCEPT ![Files[n + 1]] = Absent]
              /\ wpc' = "recover_failed"
              /\ exc' = "MoveError"
  /\ UNCHANGED <<timer, stale, interrupted>>
  /\ UNCHANGED workerFrame
  /\ UNCHANGED <<schedVars, dataVars>>

\* lines 192-199: parse the promoted files and record the summary; pycolmap
\* or numpy may raise
ReparsePromoted ==
  /\ wpc = "reparse"
  /\ \E parsed \in BOOLEAN :
       IF parsed
         THEN /\ camera_params' =
                   [camera_params EXCEPT ![d] = Vector(canonical["cameras.bin"])]
              /\ camera_params_out_duration' =
                   Append(camera_params_out_duration,
                          Vector(canonical["cameras.bin"]))
              /\ outcome' = [outcome EXCEPT ![d] = "Recovered"]
              /\ d' = d + 1
              /\ models' = NotListed
              /\ wpc' = "loop"
              /\ exc' = "none"
         ELSE /\ wpc' = "recover_failed"
              /\ exc' = "ReparseError"
              /\ UNCHANGED <<camera_params, camera_params_out_duration,
                             outcome, d, models>>
  /\ UNCHANGED <<timer, stale, canonical, largest_path,
                 largest_num_images, saved, interrupted>>
  /\ UNCHANGED <<schedVars, dataVars>>

\* mutant: the exception of the recovery is not caught
RecoveryFailedEscapes ==
  /\ wpc = "recover_failed"
  /\ wpc' = "crashed"
  /\ UNCHANGED <<timer, stale, exc, canonical, interrupted>>
  /\ UNCHANGED workerFrame
  /\ UNCHANGED <<schedVars, dataVars>>

\* lines 200-205: the recovery raised: log the timeout and continue
RecoveryFailed ==
  /\ wpc = "recover_failed"
  /\ outcome' = [outcome EXCEPT ![d] = "Failed"]
  /\ d' = d + 1
  /\ models' = NotListed
  /\ exc' = "none"
  /\ wpc' = "loop"
  /\ UNCHANGED <<timer, stale, canonical, largest_path,
                 largest_num_images, camera_params,
                 camera_params_out_duration, saved, interrupted>>
  /\ UNCHANGED <<schedVars, dataVars>>

\* lines 213-227: return without a result, or save the summaries (np.savez
\* may raise, which line 226-227 swallows)
SaveResult ==
  /\ wpc = "save"
  /\ IF camera_params_out_duration = <<>>
       THEN UNCHANGED saved
       ELSE \E written \in BOOLEAN :
              saved' = IF written
                         THEN [written |-> TRUE, params |-> camera_params]
                         ELSE saved
  /\ wpc' = "returned"
  /\ UNCHANGED <<d, timer, stale, exc, canonical, models, largest_path,
                 largest_num_images, camera_params,
                 camera_params_out_duration, outcome, interrupted>>
  /\ UNCHANGED <<schedVars, dataVars>>

WorkerNext ==
  \/ EnterGuard
  \/ LeaveLoop
  \/ BodyReturn
  \/ BodyRaise
  \/ Expire
  \/ Fire
  \/ FireStale
  \/ CancelTimer
  \/ CheckFiles
  \/ ParseResult
  \/ HandleException
  \/ SelectCheckpoint
  \/ PromoteCheckpoint
  \/ ReparsePromoted
  \/ RecoveryFailed
  \/ SaveResult

\* no scheduler: the worker process on its own
SchedIdle ==
  /\ num_gpus = 1
  /\ video_list = <<>>
  /\ gpu_queues = <<>>
  /\ gpu_processes = <<>>
  /\ all_results = <<>>
  /\ remaining_videos = 0
  /\ completed_videos = 0
  /\ pbar = 0
  /\ pc = "worker"
  /\ gpu_id = 1
  /\ i = 1
  /\ alive = {}
  /\ resultFile = {}
  /\ started = <<>>
  /\ launched = <<>>
  /\ collected = <<>>

WorkerInit == SchedIdle /\ WorkerStart /\ ReportIdle /\ SeedIdle

SpecWorker == WorkerInit /\ [][WorkerNext]_vars

\* ------------------------------------- the data of one run, to the table
\* values of the designated field (param_index = 4) of a summary
ParamValues == {-10, 5}

\* a worker's camera_params at line 213: the designated field of the
\* summary of every duration that succeeded or was recovered
Summaries == UNION {[S -> ParamValues] : S \in SUBSET Durations}

\* <video>_result.npz
NoFile == [exists |-> FALSE, dict |-> <<>>]
File(c) == [exists |-> TRUE, dict |-> c]

\* the result file of an earlier run in which every duration succeeded
StaleResult == [k \in Durations |-> 5]

\* the orders in which the workers of n videos can be found to have exited
Arrivals(n) == {a \in [1..n -> 1..n] : \A j, k \in 1..n : a[j] = a[k] => j = k}

\* before the workers end: any outcomes of the jobs; the output directory
\* may hold a result file of an earlier run (of the first video, the workers
\* ending in any order)
ReportStart ==
  /\ rpc = "workers"
  /\ \E n \in 0..MaxRunVideos :
       /\ run_list = [k \in 1..n |-> k]
       /\ worker_params \in [1..n -> Summaries]
       /\ \E old \in {0, 1} :
            result_npz = [v \in 1..n |-> IF v = old THEN File(StaleResult)
                                                    ELSE NoFile]
  /\ results = <<>>
  /\ all_camera_params = [keys |-> <<>>, val |-> <<>>]
  /\ magnitude_stats = <<>>
  /\ detailed_stats = <<>>
  /\ total_counts = <<>>
  /\ recall_stats = <<>>

\* video_cut.py lines 213-227, every worker: no file is written (and none
\* removed) when no duration yielded parameter vectors
SavedFiles(files, params) ==
  [v \in DOMAIN files |-> IF DOMAIN params[v] = {} THEN files[v]
                          ELSE File(params[v])]

\* video_cut.py lines 213-227: the workers end
WorkersSave ==
  /\ rpc = "workers"
  /\ result_npz' = SavedFiles(result_npz, worker_params)
  /\ rpc' = "collect"
  /\ UNCHANGED <<run_list, worker_params, results, all_camera_params,
                 magnitude_stats, detailed_stats, total_counts, recall_stats>>
  /\ UNCHANGED <<schedVars, workerVars, seedVars>>

\* video_cut.py lines 298-303 for the first n workers found to have exited
RECURSIVE Collected(_, _, _)
Collected(arrival, files, n) ==
  IF n = 0 THEN <<>>
  ELSE LET video_basename == arrival[n]
           sofar == Collected(arrival, files, n - 1)
       IN IF files[video_basename].exists
            THEN Append(sofar, <<video_basename, files[video_basename].dict>>)
            ELSE sofar

\* video_cut.py lines 286-317: the workers are found to have exited in some
\* order, and the result file of each is loaded if it exists
CollectResults ==
  /\ rpc = "collect"
  /\ \E arrival \in Arrivals(Len(run_list)) :
       results' = Collected(arrival, result_npz, Len(run_list))
  /\ rpc' = "combine"
  /\ UNCHANGED <<run_list, worker_params, result_npz, all_camera_params,
                 magnitude_stats, detailed_stats, total_counts, recall_stats>>
  /\ UNCHANGED <<schedVars, workerVars, seedVars>>

\* a Python dict keeps its keys in insertion order; assigning to a key it
\* holds replaces the value in place
Put(dict, key, value) ==
  [keys |-> IF \E k \in 1..Len(dict.keys) : dict.keys[k] = key
              THEN dict.keys ELSE Append(dict.keys, key),
   val |-> [k \in DOMAIN dict.val \cup {key} |->
              IF k = key THEN value ELSE dict.val[k]]]

\* video_cut.py line 338: a loaded result holds at least the key 'total'
NonEmpty(camera) == TRUE

\* video_cut.py lines 336-339 for the first n results
RECURSIVE Combined(_, _)
Combined(res, n) ==
  IF n = 0 THEN [keys |-> <<>>, val |-> <<>>]
  ELSE IF NonEmpty(res[n][2])
         THEN Put(Combined(res, n - 1), res[n][1], res[n][2])
         ELSE Combined(res, n - 1)

\* video_cut.py lines 335-339
CombineResults ==
  /\ rpc = "combine"
  /\ all_camera_params' = Combined(results, Len(results))
  /\ rpc' = "analyze"
  /\ UNCHANGED <<run_list, worker_params, result_npz, results,
                 magnitude_stats, detailed_stats, total_counts, recall_stats>>
  /\ UNCHANGED <<schedVars, workerVars, seedVars>>

\* -------------------------- camera_stats.analyze_camera_stats_magnitude
\* line 54: magnitudes = [10, 100, 1000, np.inf]: the finite ones, and the
\* index of np.inf after them
thresholds == <<10, 100, 1000>>
NumMagnitudes == Len(thresholds) + 1

\* the key 'failed' of the tables (lines 64-65), after the magnitudes
failed == NumMagnitudes + 1
Buckets == 1..failed

\* line 74
Abs(x) == IF x < 0 THEN 0 - x ELSE x

\* mutant: the comparison is not strict
IsBelowOrEqual(param_value, mag) ==
  mag = NumMagnitudes \/ param_value <= thresholds[mag]

\* line 75: param_value < mag; every value is below np.inf
IsBelow(param_value, mag) ==
  mag = NumMagnitudes \/ param_value < thresholds[mag]

\* lines 73-79: the first magnitude, from mag on, that the value is below;
\* 0 if the loop ends without a break
RECURSIVE FirstMagnitude(_, _)
FirstMagnitude(param_value, mag) ==
  IF mag > NumMagnitudes THEN 0
  ELSE IF IsBelow(param_value, mag) THEN mag
  ELSE FirstMagnitude(param_value, mag + 1)

\* mutant: the loop over the magnitudes has no break
CountedWithoutBreak(camera, duration) ==
  IF duration \notin DOMAIN camera THEN {failed}
  ELSE {mag \in 1..NumMagnitudes : IsBelow(Abs(camera[duration]), mag)}

\* lines 68-79: the buckets in which a video is counted for a duration
Counted(camera, duration) ==
  IF duration \notin DOMAIN camera THEN {failed}
  ELSE LET mag == FirstMagnitude(Abs(camera[duration]), 1)
       IN IF mag = 0 THEN {} ELSE {mag}

\* lines 69, 76: the count of a bucket after the first n videos
RECURSIVE CountIn(_, _, _, _)
CountIn(stats, duration, b, n) ==
  IF n = 0 THEN 0
  ELSE CountIn(stats, duration, b, n - 1)
       + (IF b \in Counted(stats.val[stats.keys[n]], duration) THEN 1 ELSE 0)

\* lines 71, 78: the detailed list of a bucket after the first n videos
RECURSIVE DetailedList(_, _, _, _)
DetailedList(stats, duration, b, n) ==
  IF n = 0 THEN <<>>
  ELSE LET video_name == stats.keys[n]
           camera == stats.val[video_name]
           sofar == DetailedList(stats, duration, b, n - 1)
       IN IF b \in Counted(camera, duration)
            THEN Append(sofar, <<video_name,
                                 IF b = failed THEN "failed"
                                 ELSE Abs(camera[duration])>>)
            ELSE sofar

\* line 86: count / total_counts[duration], as a fraction
Recall(count, total) == [num |-> count, den |-> total]

\* lines 56-80: the counts of a dict of per-video summaries
MagnitudeStats(stats) ==
  [duration \in Durations |->
     [b \in Buckets |-> CountIn(stats, duration, b, Len(stats.keys))]]

\* lines 61-78
DetailedStats(stats) ==
  [duration \in Durations |->
     [b \in Buckets |-> DetailedList(stats, duration, b, Len(stats.keys))]]

\* line 80: once per video, for every duration
TotalCounts(stats) == [duration \in Durations |-> Len(stats.keys)]

\* lines 83-87
RecallStats(counts, totals) ==
  [duration \in {k \in Durations : totals[k] > 0} |->
     [b \in Buckets |-> Recall(counts[duration][b], totals[duration])]]

\* lines 56-89: the tables of a dict of per-video summaries
Analysed(stats) ==
  [magnitude_stats |-> MagnitudeStats(stats),
   detailed_stats |-> DetailedStats(stats),
   total_counts |-> TotalCounts(stats),
   recall_stats |-> RecallStats(MagnitudeStats(stats), TotalCounts(stats))]

\* video_cut.py line 345, camera_stats.py lines 40-89
Analyze ==
  /\ rpc = "analyze"
  /\ magnitude_stats' = MagnitudeStats(all_camera_params)
  /\ detailed_stats' = DetailedStats(all_camera_params)
  /\ total_counts' = TotalCounts(all_camera_params)
  /\ recall_stats' = RecallStats(magnitude_stats', total_counts')
  /\ rpc' = "reported"
  /\ UNCHANGED <<run_list, worker_params, result_npz, results,
                 all_camera_params>>
  /\ UNCHANGED <<schedVars, workerVars, seedVars>>

\* camera_stats.py line 159: sorted() is stable: x goes behind the entries
\* of the first n whose value is not larger
RECURSIVE InsertByValue(_, _, _)
InsertByValue(list, x, n) ==
  IF n = 0 \/ list[n][2] <= x[2]
    THEN SubSeq(list, 1, n) \o <<x>> \o SubSeq(list, n + 1, Len(list))
    ELSE InsertByValue(list, x, n - 1)

\* camera_stats.py line 159: sorted(detailed_stats[duration][mag],
\* key=lambda x: x[1]) of the first n entries
RECURSIVE SortedByValue(_, _)
SortedByValue(list, n) ==
  IF n = 0 THEN <<>>
  ELSE LET sofar == SortedByValue(list, n - 1)
       IN InsertByValue(sofar, list[n], Len(sofar))

\* camera_stats.py lines 151-165: the listing of the report; the entries of
\* 'failed' all have the key 'failed'
Listing(detailed) ==
  [duration \in Durations |->
     [b \in Buckets |->
        IF b = failed THEN detailed[duration][b]
        ELSE SortedByValue(detailed[duration][b],
                           Len(detailed[duration][b]))]]

ReportNext ==
  \/ WorkersSave
  \/ CollectResults
  \/ CombineResults
  \/ Analyze

ReportInit == ReportStart /\ SchedIdle /\ WorkerStart /\ SeedIdle

SpecReport == ReportInit /\ [][ReportNext]_vars

\* ------------------------------- the seeds of a worker (lines 127-150)
\* two worker processes started with the same seed, video_name and durations
Processes == {1, 2}

\* hash() of a str is salted per interpreter process unless PYTHONHASHSEED
\* is set, and every worker is a spawned interpreter (line 233-234):
\* hash(video_name) is any value in each process
HashValues == {3, 7, 10003}

\* line 128: hash(video_name) % 10000
HashModulus == 10000

\* --durations 30 60 90 ...
DurationValue(k) == 30 * k

SeedStart ==
  /\ seed \in 0..MaxSeed
  /\ name_hash \in [Processes -> HashValues]
  /\ process_seed = [p \in Processes |-> 0]
  /\ video_seed = [p \in Processes |-> [k \in Durations |-> 0]]
  /\ steps = [p \in Processes |-> 0]

\* line 128: process_seed = seed + hash(video_name) % 10000
SeedProcess(p) ==
  /\ steps[p] = 0
  /\ process_seed' =
       [process_seed EXCEPT ![p] = seed + (name_hash[p] % HashModulus)]
  /\ steps' = [steps EXCEPT ![p] = 1]
  /\ UNCHANGED <<seed, name_hash, video_seed>>
  /\ UNCHANGED <<schedVars, workerVars, reportVars>>

\* line 150: video_seed = process_seed + duration, for the next duration
SeedJob(p) ==
  /\ steps[p] \in 1..NumDurations
  /\ video_seed' = [video_seed EXCEPT ![p][steps[p]] =
                      process_seed[p] + DurationValue(steps[p])]
  /\ steps' = [steps EXCEPT ![p] = steps[p] + 1]
  /\ UNCHANGED <<seed, name_hash, process_seed>>
  /\ UNCHANGED <<schedVars, workerVars, reportVars>>

SeedNext == \E p \in Processes : SeedProcess(p) \/ SeedJob(p)

SeedInit == SeedStart /\ SchedIdle /\ WorkerStart /\ ReportIdle

SpecSeed == SeedInit /\ [][SeedNext]_vars

\* the control loop alone (every step of process_videos)
ControlStep ==
  \/ Partition
  \/ InitialFill
  \/ CountRemaining
  \/ LoopTest
  \/ NextGpu
  \/ StillAlive
  \/ ObserveExit
  \/ CollectResult
  \/ RemoveProcess
  \/ Refill
  \/ Sleep
  \/ TrailingJoin

\* The control loop is a running thread and every started worker process
\* eventually exits.
FairInit == Init /\ Len(video_list) <= MaxFairVideos

FairSpec ==
  /\ FairInit
  /\ [][Next]_vars
  /\ WF_vars(ControlStep)
  /\ \A v \in 1..MaxVideos : WF_vars(WorkerExit(v))

\* ------------------------------------------------------------ the claims
Videos == 1..Len(video_list)

\* how often video v occurs in the queues / in the tracked lists
\* the queued videos and the tracked workers, GPU by GPU
AllQueued == Tracked(gpu_queues, num_gpus)
AllTracked == Tracked(gpu_processes, num_gpus)

NoDuplicates(s) == \A j, k \in 1..Len(s) : s[j] = s[k] => j = k
Occurs(s, v) == \E j \in 1..Len(s) : s[j] = v

\* C1: every entry of the video list is in exactly one GPU queue until it is
\* started, is started exactly once and collected at most once; when the run
\* ends, every video has been started once and collected once, the progress
\* bar has been incremented len(video_list) times, and no queue holds a video.
C1_ExactlyOnce ==
  /\ \A v \in Videos :
       /\ started[v] <= 1
       /\ collected[v] <= started[v]
  /\ LET queued == AllQueued
         tracked == AllTracked
     IN /\ NoDuplicates(queued)
        /\ NoDuplicates(tracked)
        /\ \A j \in 1..Len(queued) : started[queued[j]] = 0
        /\ \A j \in 1..Len(tracked) : started[tracked[j]] = 1
        /\ pc # "partition" =>
             \A v \in Videos : started[v] = 0 => Occurs(queued, v)
  /\ pc = "done" =>
       /\ \A v \in Videos : started[v] = 1 /\ collected[v] = 1
       /\ pbar = Len(video_list)
       /\ \A g \in 1..num_gpus : gpu_queues[g] = <<>>

\* a run that needed replacements has ended
C1_Witness ==
  /\ pc = "done"
  /\ Len(video_list) > processes_per_gpu * num_gpus

\* C2: in every state the number of workers tracked for a GPU is at most
\* processes_per_gpu.
C2_Capacity ==
  \A g \in 1..num_gpus : Len(gpu_processes[g]) <= processes_per_gpu

\* a GPU at full capacity, in the polling loop, with videos still queued
C2_Witness ==
  /\ pc = "scan"
  /\ \E g \in 1..num_gpus :
       /\ Len(gpu_processes[g]) = processes_per_gpu
       /\ gpu_queues[g] # <<>>
       /\ completed_videos > 0

\* C3: outside the step between the removal of an exited worker and the start
\* of its replacement (in particular at the end of every polling pass), a
\* GPU whose queue is non-empty has exactly processes_per_gpu workers in
\* flight: the replacement is started without waiting for the other workers.
C3_RefillAtOnce ==
  pc \in {"count", "while", "scan", "collect", "remove", "sleep", "join", "done"} =>
    \A g \in 1..num_gpus :
      gpu_queues[g] # <<>> => Len(gpu_processes[g]) = processes_per_gpu

\* end of a pass: a replacement runs beside workers of the initial fill that
\* are still alive, and the queue is not yet empty
C3_Witness ==
  /\ pc = "sleep"
  /\ \E g \in 1..num_gpus :
       /\ gpu_queues[g] # <<>>
       /\ \E j \in 1..Len(gpu_processes[g]) :
            /\ gpu_processes[g][j] > processes_per_gpu * num_gpus
            /\ gpu_processes[g][j] \in alive
       /\ \E j \in 1..Len(gpu_processes[g]) :
            /\ gpu_processes[g][j] <= processes_per_gpu * num_gpus
            /\ gpu_processes[g][j] \in alive

\* C4: if every started worker eventually exits, the polling loop terminates;
\* whenever it has been left, every queue is empty, no worker is tracked and
\* remaining_videos is 0.
C4_Terminates ==
  /\ <>(pc = "done")
  /\ [](pc \in {"join", "done"} =>
          /\ remaining_videos = 0
          /\ \A g \in 1..num_gpus :
               gpu_queues[g] = <<>> /\ gpu_processes[g] = <<>>)

\* the loop has been left after a run with replacements
C4_Witness ==
  /\ pc = "join"
  /\ completed_videos > processes_per_gpu * num_gpus
  /\ remaining_videos = 0

\* C5: a worker that is no longer tracked has had its result collected (the
\* artifact is read before the worker is removed, hence before its capacity
\* is reused), and an artifact that exists at collection time is the one the
\* control loop has read: none is written after the worker was collected.
C5_CollectBeforeReuse ==
  \A v \in Videos :
    /\ (started[v] >= 1 /\ ~Occurs(AllTracked, v)) => collected[v] >= 1
    /\ collected[v] >= 1 => v \notin alive
    /\ (collected[v] >= 1 /\ v \in resultFile) =>
         \E k \in 1..Len(all_results) : all_results[k] = v
    /\ v \in resultFile => started[v] >= 1

\* a replacement is about to be started in the capacity of a worker whose
\* artifact has been read
C5_Witness ==
  /\ pc = "refill"
  /\ gpu_queues[gpu_id] # <<>>
  /\ \E v \in Videos :
       /\ ~Occurs(AllTracked, v)
       /\ collected[v] = 1
       /\ v \in resultFile
       /\ all_results[Len(all_results)] = v

\* ------------------------------------------------- the worker's claims
Finished == wpc \in {"returned", "crashed"}

\* a job of this worker has failed: its body raised an ordinary exception, an
\* output file was missing, or its recovery failed
SomeJobFailed ==
  \/ exc = "Exception"
  \/ wpc \in {"except", "recover_failed"}
  \/ \E k \in Durations : outcome[k] = "Failed"

\* C6: the failure of a job never leaves the per-duration try/except: after
\* a job has failed the worker does not end with an exception, and when it
\* has ended every duration has been executed and its outcome recorded.
C6_NoErrorEscapes ==
  SomeJobFailed =>
    /\ wpc # "crashed"
    /\ wpc = "returned" => \A k \in Durations : outcome[k] # "none"

\* C7: when a deadline has elapsed (a Timer has called interrupt_main), only
\* that job is cancelled: the interrupt reaches the caller of time_limit as a
\* TimeoutException, in every interleaving, so the worker goes on with the
\* other durations.
C7_TimeoutCancelsOnlyJob ==
  interrupted =>
    /\ wpc # "crashed"
    /\ Finished => \A k \in Durations : outcome[k] # "none"

\* C8: when a time_limit call has returned to its caller, its Timer has been
\* cancelled or has fired, and no Timer of an earlier call is still to fire.
C8_TimerSettled ==
  /\ wpc \notin {"body", "exit"} => timer \in {"none", "cancelled", "fired"}
  /\ ~stale

\* the checkpoints listed under sparse/models
Listed(m) == {m.listing[k] : k \in 1..Len(m.listing)}

\* C9: the checkpoint that the recovery selects and promotes has at least as
\* many registered images as every other checkpoint under sparse/models; of
\* checkpoints with 3, 7 and 5 registered images the one with 7 is selected.
C9_SelectsMaximum ==
  /\ wpc \in {"promote", "reparse"} =>
       /\ largest_path \in Listed(models)
       /\ largest_num_images = models.count[largest_path]
       /\ \A c \in Listed(models) :
            models.count[c] <= models.count[largest_path]
  /\ wpc = "reparse" =>
       \A f \in FileSet : canonical[f] = FromCheckpoint(largest_path)
  /\ LargestOf(<<1, 2, 3>>, <<3, 7, 5>>, 3) = [path |-> 2, num_images |-> 7]

\* the largest of several checkpoints with different numbers of registered
\* images, listed after a smaller one, has been promoted
C9_Witness ==
  /\ wpc = "reparse"
  /\ Len(models.listing) >= 2
  /\ largest_path # models.listing[1]
  /\ models.count[models.listing[1]] > 0
  /\ \A f \in FileSet : canonical[f] = FromCheckpoint(largest_path)

\* C10: a job whose deadline expired is Recovered, with the summary parsed
\* from the promoted checkpoint, whenever sparse/models holds at least one
\* checkpoint and the files of the checkpoints are present and parsable,
\* whatever the numbers of registered images; its recovery fails only if
\* there is none.
C10_RecoveredIfCheckpoint ==
  /\ (wpc = "recover_failed" /\ exc \notin {"MoveError", "ReparseError"}) =>
       ~(models.exists /\ models.listing # <<>> /\ models.broken = {})
  /\ (wpc = "loop" /\ d > 1 /\ outcome[d - 1] = "Recovered") =>
       camera_params[d - 1] = Vector(FromCheckpoint(largest_path))

\* the worker is in the recovery of lines 171-205
InRecovery == wpc \in {"recover", "promote", "reparse", "recover_failed"}

\* C11: a failure of the recovery (sparse/models missing, no checkpoint
\* selected, a file missing at the move, a checkpoint or the promoted output
\* not parsable) makes the job Failed with no entry for its duration, and the
\* worker goes on with the next duration; no step of the recovery ends the
\* worker with an exception.
C11_RecoveryFailureIsHandled ==
  /\ [](\A k \in Durations : outcome[k] = "Failed" => camera_params[k] = NoEntry)
  /\ [][/\ InRecovery => wpc' # "crashed"
        /\ wpc = "recover_failed" =>
             /\ wpc' = "loop"
             /\ d' = d + 1
             /\ outcome' = [outcome EXCEPT ![d] = "Failed"]
             /\ camera_params' = camera_params]_vars

\* the recovery of the first job failed at the move or at the parse of the
\* promoted output, and the worker is in its second job
C11_Witness ==
  /\ wpc = "body"
  /\ d = 2
  /\ interrupted
  /\ outcome[1] = "Failed"
  /\ camera_params[1] = NoEntry
  /\ \E f \in FileSet : canonical[f] = Absent

\* C12: the promotion leaves the canonical location either as it was before
\* the recovery or holding exactly the three files of the selected
\* checkpoint, whether it succeeds or fails at a file.
C12_PromotionIsAtomic ==
  [][wpc = "promote" =>
       \/ canonical' = canonical
       \/ \A f \in FileSet : canonical'[f] = FromCheckpoint(largest_path)]_vars

\* C13: what a worker records for a Recovered job differs from what it
\* records for a Success job, also when both yield the same parameter
\* vectors.
C13_RecoveredIsTagged ==
  saved.written =>
    \A j, k \in Durations :
      (outcome[j] = "Success" /\ outcome[k] = "Recovered") =>
        saved.params[j] # saved.params[k]

\* ------------------------------------------------- the claims on the data
\* the videos whose summaries the analysis is given
Considered == {all_camera_params.keys[k] : k \in 1..Len(all_camera_params.keys)}

\* video v has an entry in the detailed list of bucket b of a duration
Listed_In(detailed, duration, b, v) ==
  \E j \in 1..Len(detailed[duration][b]) : detailed[duration][b][j][1] = v

\* threshold number mag strictly exceeds x
Exceeds(mag, x) == mag = NumMagnitudes \/ thresholds[mag] > x

RECURSIVE SumOver(_, _)
SumOver(f, n) == IF n = 0 THEN 0 ELSE SumOver(f, n - 1) + f[n]

\* no worker of the run left the result file of an earlier run in place
NoOldFile ==
  \A v \in DOMAIN result_npz :
    result_npz[v].exists => DOMAIN worker_params[v] # {}

\* C14: for every duration each video considered is counted in exactly one
\* bucket: 'failed' if it has no entry for the duration, otherwise the
\* smallest threshold of 10, 100, 1000, inf strictly above the absolute
\* value of the designated field; the counts of the buckets sum to the
\* number of videos considered, and the recalls of a duration (defined when
\* a video is considered) sum to 1.
C14_OneBucketEach ==
  rpc = "reported" =>
    \A duration \in Durations :
      /\ \A v \in Considered :
           LET camera == all_camera_params.val[v]
               In(b) == Listed_In(detailed_stats, duration, b, v)
           IN /\ Cardinality({b \in Buckets : In(b)}) = 1
              /\ duration \notin DOMAIN camera => In(failed)
              /\ duration \in DOMAIN camera =>
                   \E mag \in 1..NumMagnitudes :
                     /\ In(mag)
                     /\ Exceeds(mag, Abs(camera[duration]))
                     /\ \A m \in 1..(mag - 1) :
                          ~Exceeds(m, Abs(camera[duration]))
      /\ \A b \in Buckets :
           magnitude_stats[duration][b] = Len(detailed_stats[duration][b])
      /\ SumOver(magnitude_stats[duration], failed) = Cardinality(Considered)
      /\ total_counts[duration] = Cardinality(Considered)
      /\ duration \in DOMAIN recall_stats =>
           /\ recall_stats[duration][failed].den > 0
           /\ SumOver([b \in Buckets |-> recall_stats[duration][b].num],
                      failed)
                = recall_stats[duration][failed].den

\* for one duration a video is in 'failed', another below 10 and, for
\* another duration, one is in the bucket of 100
C14_Witness ==
  /\ rpc = "reported"
  /\ Cardinality(Considered) = 2
  /\ \E duration \in Durations :
       /\ magnitude_stats[duration][failed] = 1
       /\ magnitude_stats[duration][1] = 1
  /\ \E duration \in Durations : magnitude_stats[duration][2] > 0

\* the example of C15: A has value 5 at the first duration, B failed at the
\* first and has a value at the second, C failed entirely
ExampleParams == <<[k \in {1} |-> 5], [k \in {2} |-> 5], <<>>>>
ExampleTables ==
  LET files == SavedFiles([v \in 1..3 |-> NoFile], ExampleParams)
      res == Collected(<<1, 2, 3>>, files, 3)
  IN Analysed(Combined(res, Len(res)))

\* C15: a video none of whose durations succeeded or was recovered is still
\* counted in 'failed' of every duration and in the denominator of the
\* recalls; in the example the first duration has the counts <10: 1,
\* failed: 2 and the recalls 1/3 and 2/3.
C15_FailedVideosCounted ==
  /\ (rpc = "reported" /\ NoOldFile) =>
       \A v \in 1..Len(run_list) :
         DOMAIN worker_params[v] = {} =>
           \A duration \in Durations :
             /\ Listed_In(detailed_stats, duration, failed, v)
             /\ total_counts[duration] = Len(run_list)
  /\ rpc = "reported" =>
       /\ ExampleTables.magnitude_stats[1][1] = 1
       /\ ExampleTables.magnitude_stats[1][failed] = 2
       /\ ExampleTables.recall_stats[1][1] = Recall(1, 3)
       /\ ExampleTables.recall_stats[1][failed] = Recall(2, 3)

\* C16: for every duration for which no video of the run succeeded the
\* recall table has an entry with recall 0 in every magnitude bucket and
\* recall 1 in 'failed'.
C16_ZeroSuccessEntry ==
  (rpc = "reported" /\ NoOldFile /\ Len(run_list) > 0) =>
    \A duration \in Durations :
      (\A v \in 1..Len(run_list) : duration \notin DOMAIN worker_params[v]) =>
        /\ duration \in DOMAIN recall_stats
        /\ \A mag \in 1..NumMagnitudes :
             recall_stats[duration][mag].num = 0
        /\ recall_stats[duration][failed].num
             = recall_stats[duration][failed].den
        /\ recall_stats[duration][failed].den > 0

\* two dicts are equal, whatever the order of their keys
SameDict(a, b) ==
  /\ {a.keys[k] : k \in 1..Len(a.keys)} = {b.keys[k] : k \in 1..Len(b.keys)}
  /\ a.val = b.val

\* the mapping and the tables built from res are those of this run, the
\* detailed lists as listed in the report
SameAggregation(res) ==
  LET stats == Combined(res, Len(res))
      out == Analysed(stats)
  IN /\ SameDict(stats, all_camera_params)
     /\ out.magnitude_stats = magnitude_stats
     /\ out.recall_stats = recall_stats
     /\ Listing(out.detailed_stats) = Listing(detailed_stats)

\* C17: the results of the run arriving in any other order, or arriving a
\* second time, give the same per-video mapping, the same counts and
\* recalls, and the same detailed lists.
C17_OrderIndependent ==
  (rpc = "reported" /\ NoOldFile) =>
    \A arrival \in Arrivals(Len(run_list)) :
      LET res == Collected(arrival, result_npz, Len(run_list))
      IN /\ SameAggregation(res)
         /\ SameAggregation(results \o res)

\* C19: a video none of whose durations succeeded or was recovered in this
\* run has no row in the per-video mapping and no value in a magnitude
\* bucket, whatever the output directory held before the run.
C19_NoContributionWithoutSuccess ==
  rpc = "reported" =>
    \A v \in 1..Len(run_list) :
      DOMAIN worker_params[v] = {} =>
        /\ v \notin Considered
        /\ \A duration \in Durations : \A mag \in 1..NumMagnitudes :
             ~Listed_In(detailed_stats, duration, mag, v)

\* a video is considered whose designated field has, for some duration, an
\* absolute value equal to a threshold
HasTie(v, duration, mag) ==
  /\ v \in Considered
  /\ duration \in DOMAIN all_camera_params.val[v]
  /\ mag \in 1..Len(thresholds)
  /\ Abs(all_camera_params.val[v][duration]) = thresholds[mag]

\* C20, as stated: a value whose absolute value equals a threshold is
\* counted in the bucket of that threshold.
C20_TieInOwnBucket ==
  rpc = "reported" =>
    \A v \in Considered : \A duration \in Durations :
      \A mag \in 1..Len(thresholds) :
        HasTie(v, duration, mag) =>
          Listed_In(detailed_stats, duration, mag, v)

\* C20, amended: a value whose absolute value equals a threshold is counted
\* in the bucket of the next larger threshold (the comparison is strict);
\* so are 10 and 100.
C20_TieInNextBucket ==
  /\ rpc = "reported" =>
       \A v \in Considered : \A duration \in Durations :
         \A mag \in 1..Len(thresholds) :
           HasTie(v, duration, mag) =>
             /\ Listed_In(detailed_stats, duration, mag + 1, v)
             /\ ~Listed_In(detailed_stats, duration, mag, v)
  /\ Counted([k \in {1} |-> 10], 1) = {2}
  /\ Counted([k \in {1} |-> 100], 1) = {3}
  /\ Counted([k \in {1} |-> 0 - 1000], 1) = {4}

\* the table holds a video whose value is -10
C20_Witness ==
  /\ rpc = "reported"
  /\ \E v \in Considered : \E duration \in Durations :
       /\ HasTie(v, duration, 1)
       /\ Listed_In(detailed_stats, duration, 2, v)

\* C18: two worker processes given the same global seed, video name and
\* durations derive the same process_seed and the same video_seed for every
\* duration.
C18_SeedIsDeterministic ==
  \A p, q \in Processes :
    /\ (steps[p] >= 1 /\ steps[q] >= 1) => process_seed[p] = process_seed[q]
    /\ \A k \in Durations :
         (steps[p] > k /\ steps[q] > k) => video_seed[p][k] = video_seed[q][k]

\* ------------------------------------------- the GPU a worker is bound to
\* a run in which every GPU has a queue longer than its capacity or as long:
\* num_gpus * processes_per_gpu + 1 videos, so that the first GPU gets a
\* replacement while the others are busy
BindingStart ==
  /\ num_gpus \in 1..MaxGpus
  /\ video_list = [k \in 1..(num_gpus * processes_per_gpu + 1) |-> k]
  /\ gpu_queues = [g \in 1..num_gpus |-> <<>>]
  /\ gpu_processes = [g \in 1..num_gpus |-> <<>>]
  /\ all_results = <<>>
  /\ remaining_videos = 0
  /\ completed_videos = 0
  /\ pbar = 0
  /\ pc = "partition"
  /\ gpu_id = 1
  /\ i = 1
  /\ alive = {}
  /\ resultFile = {}
  /\ started = [v \in 1..Len(video_list) |-> 0]
  /\ launched = [g \in 1..num_gpus |-> <<>>]
  /\ collected = [v \in 1..Len(video_list) |-> 0]

BindingInit == BindingStart /\ WorkerStart /\ ReportIdle /\ SeedIdle

\* the workers of this run exit roughly in the order of the video list: the
\* exiting worker is among the first MaxPosition of the running ones
ExitsFromFront(v) == Cardinality({w \in alive : w < v}) < MaxPosition

\* the workers of this run save no artifact
BindingExit ==
  \E v \in alive : ExitsFromFront(v) /\ WorkerExit(v) /\ resultFile' = resultFile

BindingNext ==
  \/ Partition
  \/ InitialFill
  \/ CountRemaining
  \/ LoopTest
  \/ NextGpu
  \/ StillAlive
  \/ ObserveExit
  \/ CollectResult
  \/ RemoveProcess
  \/ Refill
  \/ Sleep
  \/ TrailingJoin
  \/ BindingExit

SpecBinding == BindingInit /\ [][BindingNext]_vars

IsPrefix(s, t) == Len(s) <= Len(t) /\ SubSeq(t, 1, Len(s)) = s

\* line 258: gpu_idx = i % num_gpus, for the video at (1-based) position v
OwnGpu(v) == ((v - 1) % num_gpus) + 1

AllOn(s, g) == \A j \in 1..Len(s) : OwnGpu(s[j]) = g

\* C21: the i-th video of the sorted list (0-based) belongs to GPU
\* i mod num_gpus; no video is queued, tracked or started on two GPUs; every
\* worker, of the initial fill or a replacement, is started with the gpu_id
\* of the queue it was taken from and is tracked in that GPU's list; the
\* videos of one GPU are started in queue order; and a step never changes
\* the gpu_id under which a worker was started: a start only appends the head
\* of the queue of the GPU whose capacity was freed.
C21_BoundToOwnGpu ==
  /\ [](pc # "partition" =>
          /\ \A g \in 1..num_gpus :
               /\ AllOn(gpu_queues[g], g)
               /\ AllOn(gpu_processes[g], g)
               /\ AllOn(launched[g], g)
               /\ NoDuplicates(gpu_queues[g] \o gpu_processes[g])
          /\ \A v \in alive :
               /\ Occurs(launched[OwnGpu(v)], v)
               /\ Occurs(gpu_processes[OwnGpu(v)], v))
  /\ [](pc # "partition" =>
          LET groups == gpu_video_groups
          IN \A g \in 1..num_gpus :
               /\ launched[g] \o gpu_queues[g] = groups[g]
               /\ \A j \in 1..Len(groups[g]) :
                    groups[g][j] = video_list[(j - 1) * num_gpus + g])
  /\ [][\A g \in DOMAIN launched :
          /\ IsPrefix(launched[g], launched'[g])
          /\ (pc = "refill" /\ launched'[g] # launched[g]) =>
               /\ g = gpu_id
               /\ launched'[g] = Append(launched[g], Head(gpu_queues[g]))
               /\ Len(gpu_processes'[g]) = Len(gpu_processes[g]) + 1]_vars

\* a replacement has been started on the first of several GPUs while the
\* other GPUs still run workers of the initial fill
C21_Witness ==
  /\ num_gpus > 1
  /\ pc = "scan"
  /\ Len(launched[1]) > processes_per_gpu
  /\ launched[1][Len(launched[1])] \in alive
  /\ \E g \in 2..num_gpus : \E j \in 1..Len(gpu_processes[g]) :
       gpu_processes[g][j] \in alive

\* sparse/models holds a checkpoint that the recovery of lines 172-199 would
\* select and promote
UsableCheckpoint(m) ==
  /\ m.exists
  /\ m.broken = {}
  /\ \E k \in 1..Len(m.listing) : m.count[m.listing[k]] > 0

\* C22: the checkpoint selected by the recovery depends on the set of
\* checkpoints and their counts only: any other order of the same directory
\* listing selects the same checkpoint.
C22_SelectionIgnoresListingOrder ==
  wpc = "promote" =>
    \A l \in Listings :
      {l[k] : k \in 1..Len(l)} =
        {models.listing[k] : k \in 1..Len(models.listing)} =>
      LargestOf(l, models.count, Len(l)).path = largest_path

\* C23: when the reconstruction returned in time but an output file is
\* missing, the job is Failed only if there is no recovery checkpoint: with a
\* checkpoint under sparse/models the job is not made Failed.
C23_MissingOutputRecovers ==
  [][(wpc = "except" /\ exc = "RuntimeError" /\ UsableCheckpoint(models)) =>
       outcome'[d] # "Failed"]_vars
====
